---- MODULE Spec2Model ----
(***************************************************************************)
(* Model of the two secret-upload tools of the repository:                 *)
(*   src/scripts/python/set_gh_secrets.py  (tool "gh":   env-file sync)    *)
(*   src/scripts/set_cert_secrets.py       (tool "cert": certificate       *)
(*                                          upload)                        *)
(* Text is modelled as a sequence of one-character strings, a Python dict  *)
(* as the sequence of its <<key, value>> items in insertion order.         *)
(***************************************************************************)
EXTENDS Integers, Sequences, FiniteSets, TLC

VARIABLES
    tool,           \* "gh" | "cert" | "parse" (parse_env_file on its own)
    args,           \* the command line: token, list, dry_run, path_exists; repo_known
    envFile,        \* the lines of the secrets file (tool "gh")
    environ,        \* os.environ, as a dict
    certFiles,      \* the two certificate files on disk (tool "cert")
    pc,             \* position of main
    exitCode,       \* process exit status, NoExit while running
    requests,       \* the network requests issued so far, in order
    remoteKey,      \* the key pair the remote store currently publishes
    verify,         \* verify_token: the two responses and the result
    variables,      \* the name -> plaintext dict main iterates over
    warnings,       \* warnings printed so far
    idx,            \* loop position in variables (1-based)
    success_count,  \* main's tally
    calls,          \* one record per finished set_secret call
    keyFetch,       \* the get_public_key call of the current set_secret
    lastPut,        \* the most recent PUT request and the call it belongs to
    listing         \* list_secrets: the response and what main printed

vars == << tool, args, envFile, environ, certFiles, pc, exitCode, requests,
           remoteKey, verify, variables, warnings, idx, success_count, calls,
           keyFetch, lastPut, listing >>

----------------------------------------------------------------------------
(* Bounds of the model *)

\* longest secrets file given to parse_env_file on its own
MaxLines == 3
\* most secrets in a batch of a whole run of the env-file tool
MaxSecrets == 3
\* how often the remote store rotates its key pair during a run
MaxRotations == 2

----------------------------------------------------------------------------
(* Text *)

Letters == << "A", "B", "C", "D", "E", "F", "G", "H" >>

Str1(c) == << c >>

Whitespace == { " ", "\n", "\t" }

\* str.strip()
RECURSIVE LStrip(_)
LStrip(s) == IF s # << >> /\ Head(s) \in Whitespace THEN LStrip(Tail(s)) ELSE s

RECURSIVE RStrip(_)
RStrip(s) ==
    IF s # << >> /\ s[Len(s)] \in Whitespace
    THEN RStrip(SubSeq(s, 1, Len(s) - 1))
    ELSE s

Strip(s) == RStrip(LStrip(s))

StartsWith(s, c) == s # << >> /\ s[1] = c
EndsWith(s, c) == s # << >> /\ s[Len(s)] = c

\* s[1:-1]
Slice1Minus1(s) == SubSeq(s, 2, Len(s) - 1)

(* Python dict, insertion-ordered: assigning an existing key keeps its place *)
DictHas(d, k) == \E i \in DOMAIN d : d[i][1] = k
DictGet(d, k) == d[CHOOSE i \in DOMAIN d : d[i][1] = k][2]
DictSet(d, k, v) ==
    IF DictHas(d, k)
    THEN [i \in DOMAIN d |-> IF d[i][1] = k THEN << k, v >> ELSE d[i]]
    ELSE Append(d, << k, v >>)
DictKeys(d) == [i \in DOMAIN d |-> d[i][1]]
DictKeySet(d) == { d[i][1] : i \in DOMAIN d }

----------------------------------------------------------------------------
(* parse_env_file *)

\* A line of the file after line.strip(): an export statement the regular
\* expression matches (group 1 the name, group 2 the text after "="), or
\* anything else (blank, comment, no match), which the first pass skips.
ExportLine(name, rhs) == [kind |-> "export", name |-> name, rhs |-> rhs]
OtherLine == [kind |-> "other", name |-> << >>, rhs |-> << >>]

\* "Remove quotes"
RemoveQuotes(v) ==
    IF (StartsWith(v, "\"") /\ EndsWith(v, "\"")) \/ (StartsWith(v, "'") /\ EndsWith(v, "'"))
    THEN Slice1Minus1(v)
    ELSE v

\* First pass: collect simple assignments
RECURSIVE FirstPass(_, _)
FirstPass(lines, simple_vars) ==
    IF lines = << >> THEN simple_vars
    ELSE LET line == Head(lines)
         IN  IF line.kind = "export"
             THEN FirstPass(Tail(lines),
                            DictSet(simple_vars, line.name, RemoveQuotes(Strip(line.rhs))))
             ELSE FirstPass(Tail(lines), simple_vars)

\* os.environ.get(ref_name) followed by "if env_value:"
EnvTruthy(env, ref_name) == DictHas(env, ref_name) /\ DictGet(env, ref_name) # << >>

\* the value kept for a reference nothing resolves
UnresolvedDropped(var_value) == << >>
UnresolvedValue(var_value) == var_value

\* one iteration of the second pass: the value stored for var_name
ResolvedValue(simple_vars, env, var_value) ==
    IF StartsWith(var_value, "$")
    THEN LET ref_name == Tail(var_value)
         IN  IF DictHas(simple_vars, ref_name) THEN DictGet(simple_vars, ref_name)
             ELSE IF EnvTruthy(env, ref_name) THEN DictGet(env, ref_name)
             ELSE UnresolvedValue(var_value)
    ELSE var_value

\* does that iteration print the "Unresolved variable reference" warning
WarnsUnresolved(simple_vars, env, var_value) ==
    /\ StartsWith(var_value, "$")
    /\ ~DictHas(simple_vars, Tail(var_value))
    /\ ~EnvTruthy(env, Tail(var_value))

\* Second pass: resolve variable references
SecondPass(simple_vars, env) ==
    [i \in DOMAIN simple_vars |->
        << simple_vars[i][1], ResolvedValue(simple_vars, env, simple_vars[i][2]) >>]

SecondPassWarnings(simple_vars, env) ==
    { << "unresolved", simple_vars[i][1] >> :
        i \in { j \in DOMAIN simple_vars :
                  WarnsUnresolved(simple_vars, env, simple_vars[j][2]) } }

parse_env_file(lines, env) == SecondPass(FirstPass(lines, << >>), env)
parse_env_file_warnings(lines, env) == SecondPassWarnings(FirstPass(lines, << >>), env)

----------------------------------------------------------------------------
(* Inputs of parse_env_file on its own *)

ParseNames == { Str1(Letters[i]) : i \in 1..3 }

\* texts after "=": plain, quoted, empty, references to A and C, a reference
\* to a name no line of these files assigns
RefUndefined == << "$", "U" >>
ParseRhs ==
    { << "x" >>, << "\"", "y", "\"" >>, << >>,
      << "$", "A" >>, << "$", "C" >>, RefUndefined }

ParseLineSet ==
    { ExportLine(n, r) : n \in ParseNames, r \in ParseRhs } \cup { OtherLine }

SeqsUpTo(S, n) == UNION { [1..k -> S] : k \in 0..n }

\* os.environ as far as the files see it: U unset, set to "", set to "e"
Environs == { << >>, << << << "U" >>, << >> >> >>, << << << "U" >>, << "e" >> >> >> }

NoExit == -1
NoKeyFetch == [state |-> "none"]
NoPut == [state |-> "none"]
NoVerify == [state |-> "none", user |-> [status |-> 0, json |-> FALSE], asked_repo |-> FALSE,
             repo |-> [status |-> 0, json |-> FALSE], admin |-> FALSE, result |-> FALSE]
NoListing == [state |-> "none", resp |-> [status |-> 0, json |-> FALSE], secrets |-> << >>,
              outcome |-> [raised |-> "none", value |-> << >>]]
NoArgs == [token |-> FALSE, repo_known |-> FALSE, list |-> FALSE, dry_run |-> FALSE,
           path_exists |-> FALSE]


----------------------------------------------------------------------------
(* HTTP *)

\* statuses the remote API answers with: success, a 3xx that requests does
\* not follow (no Location header), and client and server errors
Statuses == { 200, 304, 401, 404, 500 }

\* requests raised before any response arrived (ConnectionError, Timeout)
TransportFailure == [status |-> 0, json |-> FALSE]

\* a response: its status, and whether its body is the JSON document the API
\* documents for the endpoint (only a 2xx answer carries it)
Responses ==
    { TransportFailure } \cup
    { [status |-> p[1], json |-> p[2]] :
        p \in { q \in Statuses \X BOOLEAN : q[2] => (200 <= q[1] /\ q[1] < 300) } }

\* Response.raise_for_status(): HTTPError for 4xx and 5xx, nothing otherwise
RaisesForStatus(resp) == 400 <= resp.status /\ resp.status < 600

\* the exception classes of the model; requests.exceptions.JSONDecodeError
\* derives from RequestException (requests 2.27 and later)
IsRequestException(exc) == exc \in { "ConnectionError", "HTTPError", "JSONDecodeError" }

Returned(v) == [raised |-> "none", value |-> v]
Raised(exc) == [raised |-> exc, value |-> FALSE]

----------------------------------------------------------------------------
(* GitHubSecretsManager *)

\* what verify_token does with the answer of GET /user:
\* "false" (return False) or "continue"
VerifyUserStep(resp) ==
    IF resp = TransportFailure THEN "false"
    ELSE IF resp.status = 401 THEN "false"
    ELSE IF RaisesForStatus(resp) THEN "false"
    ELSE IF ~resp.json THEN "false"
    ELSE "continue"

\* what verify_token returns given the answer of GET /repos/{owner}/{repo}
\* and the admin flag of its permissions (which only decides the warning)
VerifyRepoStepAdminRequired(resp, admin) ==
    IF resp = TransportFailure THEN FALSE
    ELSE IF resp.status = 404 THEN FALSE
    ELSE IF RaisesForStatus(resp) THEN FALSE
    ELSE IF ~resp.json THEN FALSE
    ELSE admin
VerifyRepoStep(resp, admin) ==
    IF resp = TransportFailure THEN FALSE
    ELSE IF resp.status = 404 THEN FALSE
    ELSE IF RaisesForStatus(resp) THEN FALSE
    ELSE IF ~resp.json THEN FALSE
    ELSE TRUE

\* the public key document the remote store serves while key pair n is current
B64(x) == << "b64", x >>
UnB64(t) == t[2]
PublicKeyDoc(n) == [key |-> B64(<< "pk", n >>), key_id |-> << "id", n >>]

\* get_public_key, given the answer of the public-key GET and its document
get_public_key_all_http_error(resp, data) ==
    IF resp = TransportFailure THEN Raised("ConnectionError")
    ELSE IF resp.status = 404 THEN Raised("HTTPError")
    ELSE IF RaisesForStatus(resp) THEN Raised("HTTPError")
    ELSE IF ~resp.json THEN Raised("JSONDecodeError")
    ELSE Returned(<< data.key, data.key_id >>)
get_public_key(resp, data) ==
    IF resp = TransportFailure THEN Raised("ConnectionError")
    ELSE IF resp.status = 404 THEN Raised("Exception")
    ELSE IF RaisesForStatus(resp) THEN Raised("HTTPError")
    ELSE IF ~resp.json THEN Raised("JSONDecodeError")
    ELSE Returned(<< data.key, data.key_id >>)

\* encrypt_secret: a sealed box only the private key of public_key opens
encrypt_secret(public_key, secret_value) ==
    B64([sealed_for |-> UnB64(public_key), plaintext |-> secret_value])

\* the body of set_secret's try block after the PUT was answered
set_secret_after_put(resp) ==
    IF resp = TransportFailure THEN Raised("ConnectionError")
    ELSE IF resp.status = 404 THEN Returned(FALSE)
    ELSE IF RaisesForStatus(resp) THEN Raised("HTTPError")
    ELSE Returned(TRUE)

\* "except Exception as e: ... return False" around the whole of set_secret
set_secret_no_catch(outcome) == outcome
set_secret_catch(outcome) ==
    IF outcome.raised # "none" THEN Returned(FALSE) ELSE outcome

\* list_secrets: the names of the response's secrets, in its order
list_secrets_reversed(resp, secrets) ==
    IF resp = TransportFailure THEN Raised("ConnectionError")
    ELSE IF RaisesForStatus(resp) THEN Raised("HTTPError")
    ELSE IF ~resp.json THEN Raised("JSONDecodeError")
    ELSE Returned([i \in DOMAIN secrets |-> secrets[Len(secrets) + 1 - i].name])
list_secrets(resp, secrets) ==
    IF resp = TransportFailure THEN Raised("ConnectionError")
    ELSE IF RaisesForStatus(resp) THEN Raised("HTTPError")
    ELSE IF ~resp.json THEN Raised("JSONDecodeError")
    ELSE Returned([i \in DOMAIN secrets |-> secrets[i].name])

----------------------------------------------------------------------------
(* read_certificate_files *)

CertSecretNames == << << "LETSENCRYPT_CERT" >>, << "LETSENCRYPT_KEY" >> >>

\* a certificate file: missing, unreadable (open raises), or its content
CertFileStates ==
    { [exists |-> FALSE, readable |-> FALSE, content |-> << >>],
      [exists |-> TRUE, readable |-> FALSE, content |-> << >>],
      [exists |-> TRUE, readable |-> TRUE, content |-> << >>],
      [exists |-> TRUE, readable |-> TRUE, content |-> << "c", "\n" >>] }

RECURSIVE read_certificate_files_from(_, _, _)
read_certificate_files_from(files, i, certificates) ==
    IF i > Len(files) THEN certificates
    ELSE IF ~files[i].exists \/ ~files[i].readable
         THEN read_certificate_files_from(files, i + 1, certificates)
         ELSE read_certificate_files_from(files, i + 1,
                  DictSet(certificates, CertSecretNames[i], Strip(files[i].content)))

read_certificate_files(files) == read_certificate_files_from(files, 1, << >>)

----------------------------------------------------------------------------
(* main: inputs *)

\* texts after "=" in the secrets file of a whole run: a value, nothing
MainRhs == { << "x" >>, << >> }

\* secrets files of a whole run: one export line per name, up to MaxSecrets
MainFiles ==
    UNION { { [i \in 1..n |-> ExportLine(Str1(Letters[i]), r[i])] : r \in [1..n -> MainRhs] } :
            n \in 0..MaxSecrets }

\* the "secrets" array of the secrets-list document
RemoteSecrets ==
    SeqsUpTo({ [name |-> Str1(Letters[i]), updated_at |-> "t"] : i \in 1..2 }, 2)

Init ==
    /\ tool \in { "gh", "cert" }
    /\ args \in [token : BOOLEAN, repo_known : BOOLEAN, list : BOOLEAN,
                 dry_run : BOOLEAN, path_exists : BOOLEAN]
    /\ envFile \in IF tool = "gh" /\ args.path_exists THEN MainFiles ELSE { << >> }
    /\ environ = << >>
    /\ certFiles \in IF tool = "cert" /\ args.path_exists
                     THEN [1..2 -> CertFileStates] ELSE { << >> }
    /\ pc = "start"
    /\ exitCode = NoExit
    /\ requests = << >>
    /\ remoteKey = 1
    /\ verify = NoVerify
    /\ variables = << >>
    /\ warnings = { }
    /\ idx = 1
    /\ success_count = 0
    /\ calls = << >>
    /\ keyFetch = NoKeyFetch
    /\ lastPut = NoPut
    /\ listing = NoListing

----------------------------------------------------------------------------
(* main: steps *)

\* sys.exit(code), or main returning (code 0)
Exit(code) == pc' = "done" /\ exitCode' = code

\* "Validate token"
ValidateTokenSkipped ==
    /\ pc = "start"
    /\ pc' = "repo_info"
    /\ UNCHANGED << tool, args, envFile, environ, certFiles, exitCode, requests,
                    remoteKey, verify, variables, warnings, idx, success_count,
                    calls, keyFetch, lastPut, listing >>
ValidateToken ==
    /\ pc = "start"
    /\ IF ~args.token THEN Exit(1) ELSE pc' = "repo_info" /\ UNCHANGED exitCode
    /\ UNCHANGED << tool, args, envFile, environ, certFiles, requests, remoteKey,
                    verify, variables, warnings, idx, success_count, calls,
                    keyFetch, lastPut, listing >>

\* "Get repository info": get_repo_info raises ValueError or returns
GetRepoInfo ==
    /\ pc = "repo_info"
    /\ IF ~args.repo_known THEN Exit(1) ELSE pc' = "verify_user" /\ UNCHANGED exitCode
    /\ UNCHANGED << tool, args, envFile, environ, certFiles, requests, remoteKey,
                    verify, variables, warnings, idx, success_count, calls,
                    keyFetch, lastPut, listing >>

\* verify_token up to the answer of GET /user; on False main exits 1
VerifyUser ==
    /\ pc = "verify_user"
    /\ \E resp \in Responses :
        /\ requests' = Append(requests, "GET_USER")
        /\ IF VerifyUserStep(resp) = "false"
           THEN /\ verify' = [verify EXCEPT !.state = "done", !.user = resp]
                /\ Exit(1)
           ELSE /\ verify' = [verify EXCEPT !.state = "user_ok", !.user = resp]
                /\ pc' = "verify_repo"
                /\ UNCHANGED exitCode
    /\ UNCHANGED << tool, args, envFile, environ, certFiles, remoteKey, variables,
                    warnings, idx, success_count, calls, keyFetch, lastPut, listing >>

\* the rest of verify_token: GET of the repository, the admin flag of its
\* permissions; then main's "if args.list"
VerifyRepo ==
    /\ pc = "verify_repo"
    /\ \E resp \in Responses, admin \in BOOLEAN :
        /\ admin => resp.json
        /\ requests' = Append(requests, "GET_REPO")
        /\ verify' = [state |-> "done", user |-> verify.user, asked_repo |-> TRUE,
                      repo |-> resp, admin |-> admin,
                      result |-> VerifyRepoStep(resp, admin)]
        /\ IF ~VerifyRepoStep(resp, admin)
           THEN Exit(1) /\ UNCHANGED warnings
           ELSE /\ pc' = IF args.list THEN "list" ELSE "check_path"
                /\ warnings' = IF admin THEN warnings ELSE warnings \cup { << "no_admin" >> }
                /\ UNCHANGED exitCode
    /\ UNCHANGED << tool, args, envFile, environ, certFiles, remoteKey, variables,
                    idx, success_count, calls, keyFetch, lastPut, listing >>

\* "List secrets if requested"
ListSecretsExitZero ==
    /\ pc = "list"
    /\ \E resp \in Responses, secrets \in RemoteSecrets :
        /\ secrets # << >> => resp.json
        /\ requests' = Append(requests, "GET_LIST")
        /\ listing' = [state |-> "done", resp |-> resp, secrets |-> secrets,
                       outcome |-> list_secrets(resp, secrets)]
        /\ Exit(0)
    /\ UNCHANGED << tool, args, envFile, environ, certFiles, remoteKey, verify,
                    variables, warnings, idx, success_count, calls, keyFetch, lastPut >>
ListSecrets ==
    /\ pc = "list"
    /\ \E resp \in Responses, secrets \in RemoteSecrets :
        /\ secrets # << >> => resp.json
        /\ requests' = Append(requests, "GET_LIST")
        /\ LET out == list_secrets(resp, secrets)
           IN  /\ listing' = [state |-> "done", resp |-> resp, secrets |-> secrets,
                              outcome |-> out]
               /\ Exit(IF out.raised # "none" THEN 1 ELSE 0)
    /\ UNCHANGED << tool, args, envFile, environ, certFiles, remoteKey, verify,
                    variables, warnings, idx, success_count, calls, keyFetch, lastPut >>

\* "if not secrets_path.exists()" / "if not cert_dir.exists()"
CheckPath ==
    /\ pc = "check_path"
    /\ IF ~args.path_exists THEN Exit(1) ELSE pc' = "read" /\ UNCHANGED exitCode
    /\ UNCHANGED << tool, args, envFile, environ, certFiles, requests, remoteKey,
                    verify, variables, warnings, idx, success_count, calls,
                    keyFetch, lastPut, listing >>

\* set_gh_secrets: parse the file, print the names, return on --dry-run
ReadSecretsFileNoDryRun ==
    /\ pc = "read" /\ tool = "gh"
    /\ variables' = parse_env_file(envFile, environ)
    /\ warnings' = warnings \cup parse_env_file_warnings(envFile, environ)
    /\ pc' = "loop"
    /\ UNCHANGED << tool, args, envFile, environ, certFiles, exitCode, requests,
                    remoteKey, verify, idx, success_count, calls, keyFetch, lastPut,
                    listing >>
ReadSecretsFile ==
    /\ pc = "read" /\ tool = "gh"
    /\ variables' = parse_env_file(envFile, environ)
    /\ warnings' = warnings \cup parse_env_file_warnings(envFile, environ)
    /\ IF args.dry_run THEN Exit(0) ELSE pc' = "loop" /\ UNCHANGED exitCode
    /\ UNCHANGED << tool, args, envFile, environ, certFiles, requests, remoteKey,
                    verify, idx, success_count, calls, keyFetch, lastPut, listing >>

\* set_cert_secrets: read the files, exit 1 when none was read, return on --dry-run
ReadCertificates ==
    /\ pc = "read" /\ tool = "cert"
    /\ variables' = read_certificate_files(certFiles)
    /\ IF variables' = << >> THEN Exit(1)
       ELSE IF args.dry_run THEN Exit(0)
       ELSE pc' = "loop" /\ UNCHANGED exitCode
    /\ UNCHANGED << tool, args, envFile, environ, certFiles, requests, remoteKey,
                    verify, warnings, idx, success_count, calls, keyFetch, lastPut,
                    listing >>

\* does the loop body skip this item ("if not value: ... continue")
SkipsEmpty(t, value) == t = "gh" /\ value = << >>

SkipEmpty ==
    /\ pc = "loop" /\ idx <= Len(variables)
    /\ SkipsEmpty(tool, variables[idx][2])
    /\ warnings' = warnings \cup { << "skip_empty", variables[idx][1] >> }
    /\ idx' = idx + 1
    /\ UNCHANGED << tool, args, envFile, environ, certFiles, pc, exitCode, requests,
                    remoteKey, verify, variables, success_count, calls, keyFetch,
                    lastPut, listing >>

\* what main does with the outcome of manager.set_secret(name, value): count
\* a True, go on to the next item; an exception would end the process
AfterSetSecretStops(out) ==
    /\ success_count' = IF out.value THEN success_count + 1 ELSE success_count
    /\ IF out.raised # "none" \/ ~out.value THEN Exit(1) /\ UNCHANGED idx
       ELSE idx' = idx + 1 /\ pc' = "loop" /\ UNCHANGED exitCode
AfterSetSecret(out) ==
    /\ success_count' = IF out.raised = "none" /\ out.value
                        THEN success_count + 1 ELSE success_count
    /\ IF out.raised # "none" THEN Exit(1) /\ UNCHANGED idx
       ELSE idx' = idx + 1 /\ pc' = "loop" /\ UNCHANGED exitCode

\* set_secret up to the return of get_public_key
SetSecretGetKey ==
    /\ pc = "loop" /\ idx <= Len(variables)
    /\ ~SkipsEmpty(tool, variables[idx][2])
    /\ \E resp \in Responses :
        LET data == PublicKeyDoc(remoteKey)
            got == get_public_key(resp, data)
            out == set_secret_catch(got)
        IN  /\ requests' = Append(requests, "GET_KEY")
            /\ keyFetch' = [state |-> IF got.raised = "none" THEN "returned" ELSE "raised",
                            call |-> Len(calls) + 1, resp |-> resp, data |-> data,
                            outcome |-> got]
            /\ IF got.raised = "none"
               THEN pc' = "put" /\ UNCHANGED << calls, success_count, idx, exitCode >>
               ELSE /\ calls' = Append(calls, [name |-> variables[idx][1], sent |-> FALSE,
                                               status |-> 0, outcome |-> out])
                    /\ AfterSetSecret(out)
    /\ UNCHANGED << tool, args, envFile, environ, certFiles, remoteKey, verify,
                    variables, warnings, lastPut, listing >>

\* the JSON body of the PUT
PutPayloadCachedKey ==
    [encrypted_value |-> encrypt_secret(PublicKeyDoc(1).key, variables[idx][2]),
     key_id |-> PublicKeyDoc(1).key_id]
PutPayload ==
    [encrypted_value |-> encrypt_secret(keyFetch.outcome.value[1], variables[idx][2]),
     key_id |-> keyFetch.outcome.value[2]]

\* set_secret from encrypt_secret to its return
SetSecretPut ==
    /\ pc = "put"
    /\ \E resp \in Responses :
        LET out == set_secret_catch(set_secret_after_put(resp))
        IN  /\ ~resp.json    \* the answer to the PUT has no body the code reads
            /\ requests' = Append(requests, "PUT")
            /\ lastPut' = [state |-> "sent", call |-> Len(calls) + 1,
                           name |-> variables[idx][1], value |-> variables[idx][2],
                           payload |-> PutPayload, resp |-> resp, outcome |-> out]
            /\ calls' = Append(calls, [name |-> variables[idx][1], sent |-> TRUE,
                                       status |-> resp.status, outcome |-> out])
            /\ AfterSetSecret(out)
    /\ UNCHANGED << tool, args, envFile, environ, certFiles, remoteKey, verify,
                    variables, warnings, keyFetch, listing >>

\* the loop is over: the tally is printed and main returns
Finish ==
    /\ pc = "loop" /\ idx > Len(variables)
    /\ Exit(0)
    /\ UNCHANGED << tool, args, envFile, environ, certFiles, requests, remoteKey,
                    verify, variables, warnings, idx, success_count, calls,
                    keyFetch, lastPut, listing >>

\* the remote store rotates its key pair while secrets are being uploaded
Rotate ==
    /\ pc \in { "loop", "put" }
    /\ remoteKey <= MaxRotations
    /\ remoteKey' = remoteKey + 1
    /\ UNCHANGED << tool, args, envFile, environ, certFiles, pc, exitCode, requests,
                    verify, variables, warnings, idx, success_count, calls,
                    keyFetch, lastPut, listing >>

Next ==
    \/ ValidateToken
    \/ GetRepoInfo
    \/ VerifyUser
    \/ VerifyRepo
    \/ ListSecrets
    \/ CheckPath
    \/ ReadSecretsFile
    \/ ReadCertificates
    \/ SkipEmpty
    \/ SetSecretGetKey
    \/ SetSecretPut
    \/ Finish
    \/ Rotate

Spec == Init /\ [][Next]_vars

----------------------------------------------------------------------------
(* parse_env_file on its own *)

InitParse ==
    /\ tool = "parse"
    /\ args = NoArgs
    /\ envFile \in SeqsUpTo(ParseLineSet, MaxLines)
    /\ environ \in Environs
    /\ certFiles = << >>
    /\ pc = "parse"
    /\ exitCode = NoExit
    /\ requests = << >>
    /\ remoteKey = 1
    /\ verify = NoVerify
    /\ variables = << >>
    /\ warnings = { }
    /\ idx = 1
    /\ success_count = 0
    /\ calls = << >>
    /\ keyFetch = NoKeyFetch
    /\ lastPut = NoPut
    /\ listing = NoListing

\* variables = parse_env_file(secrets_path)
ParseEnvFile ==
    /\ pc = "parse"
    /\ variables' = parse_env_file(envFile, environ)
    /\ warnings' = parse_env_file_warnings(envFile, environ)
    /\ pc' = "parsed"
    /\ UNCHANGED << tool, args, envFile, environ, certFiles, exitCode, requests,
                    remoteKey, verify, idx, success_count, calls, keyFetch,
                    lastPut, listing >>

NextParse == ParseEnvFile

SpecParse == InitParse /\ [][NextParse]_vars

----------------------------------------------------------------------------
(* Vocabulary of the properties *)

Is2xx(resp) == resp # TransportFailure /\ 200 <= resp.status /\ resp.status < 300

\* a request that succeeded: a 2xx answer carrying the documented JSON
Succeeded(resp) == Is2xx(resp) /\ resp.json

\* an answer with a failing status other than 404
OtherFailingStatus(resp) ==
    resp # TransportFailure /\ resp.status >= 400 /\ resp.status # 404

RequestsOfKind(k) == SelectSeq(requests, LAMBDA r : r = k)

\* the run ended at the check of the secrets file / certificate directory
MissingPathExit ==
    /\ pc = "done" /\ exitCode = 1
    /\ args.token /\ args.repo_known /\ verify.result
    /\ ~args.list /\ ~args.path_exists

\* the run went through the whole upload loop and main returned
LoopCompleted ==
    /\ pc = "done" /\ exitCode = 0
    /\ ~args.list /\ ~args.dry_run /\ idx = Len(variables) + 1

AllNonEmpty(d) == \A i \in DOMAIN d : d[i][2] # << >>

CountTrue(cs) == Cardinality({ i \in DOMAIN cs : cs[i].outcome.value })

----------------------------------------------------------------------------
(* C1: once the public key was fetched, set_secret returns True only when   *)
(* the PUT is answered 2xx; for every other status it returns False, and    *)
(* it never raises.  (The code returns True for a 304, see                  *)
(* set_secret_after_put.)                                                   *)
C1_TrueOnlyOn2xx ==
    (lastPut.state = "sent" /\ lastPut.resp # TransportFailure) =>
        /\ lastPut.outcome.raised = "none"
        /\ lastPut.outcome.value <=> Is2xx(lastPut.resp)

(* C2: the key_id of every PUT payload is the key_id the public-key GET of  *)
(* the same set_secret call returned, and the ciphertext is sealed for the  *)
(* key of that same GET; a PUT is never sent without that call's own fetch  *)
(* having returned, however the remote key rotates.                         *)
C2_KeyOfSameCall ==
    lastPut.state = "sent" =>
        /\ keyFetch.state # "none"
        /\ keyFetch.call >= lastPut.call
        /\ keyFetch.call = lastPut.call =>
            /\ keyFetch.state = "returned"
            /\ Succeeded(keyFetch.resp)
            /\ lastPut.payload.key_id = keyFetch.data.key_id
            /\ lastPut.payload.encrypted_value =
                   B64([sealed_for |-> UnB64(keyFetch.data.key),
                        plaintext |-> lastPut.value])

\* the second call uploads under the rotated key, after a first upload
C2_Witness ==
    /\ lastPut.state = "sent" /\ lastPut.call = 2 /\ keyFetch.call = 2
    /\ calls[1].sent
    /\ lastPut.payload.key_id = PublicKeyDoc(2).key_id
    /\ remoteKey = 3

(* C3: in a batch of N non-empty secrets, whichever uploads fail,           *)
(* set_secret is attempted exactly once per secret in map order (one        *)
(* public-key GET each), the loop runs to its end and exits 0, and the      *)
(* tally is (number of calls that returned True)/N.                         *)
C3_BatchContinues ==
    AllNonEmpty(variables) =>
        /\ pc \in { "loop", "put" } =>
            /\ Len(calls) = idx - 1
            /\ \A i \in DOMAIN calls : calls[i].name = variables[i][1]
            /\ success_count = CountTrue(calls)
        /\ (pc = "done" /\ variables # << >> /\ ~args.dry_run) =>
            /\ LoopCompleted
            /\ [i \in DOMAIN calls |-> calls[i].name] = DictKeys(variables)
            /\ Len(RequestsOfKind("GET_KEY")) = Len(variables)
            /\ success_count = CountTrue(calls)

\* three secrets, only the second upload fails (HTTP 500): tally 2/3
C3_Witness ==
    /\ LoopCompleted /\ Len(variables) = 3 /\ AllNonEmpty(variables)
    /\ \A i \in 1..3 : calls[i].sent
    /\ calls[1].outcome.value /\ calls[3].outcome.value
    /\ calls[2].status = 500 /\ ~calls[2].outcome.value
    /\ success_count = 2

(* C4: set_secret is never called with an empty plaintext: no finished or   *)
(* running call is for a secret whose value is the empty string.  (The      *)
(* certificate tool has no such check.)                                     *)
C4_NoEmptyPlaintext ==
    /\ \A i \in DOMAIN calls : DictGet(variables, calls[i].name) # << >>
    /\ pc = "put" => variables[idx][2] # << >>

(* C5, as claimed: a run ended by a missing token or a missing input path   *)
(* has issued no network request.                                           *)
C5_ConfigErrorBeforeNetwork ==
    (pc = "done" /\ exitCode = 1 /\ (~args.token \/ MissingPathExit)) =>
        requests = << >>

(* C5, amended: a run ended by a missing token has issued no network        *)
(* request; a run ended by a missing input path has issued exactly the two  *)
(* access-verification GETs, and no public-key GET, PUT or list request.    *)
C5_ConfigErrorRequests ==
    /\ (pc = "done" /\ ~args.token) => (exitCode = 1 /\ requests = << >>)
    /\ MissingPathExit => requests = << "GET_USER", "GET_REPO" >>
    /\ (pc = "done" /\ args.token /\ args.repo_known /\ verify.result
          /\ ~args.list /\ ~args.path_exists) => exitCode = 1

C5_Witness == MissingPathExit /\ Len(requests) = 2

(* C6: get_public_key raises the plain Exception ("store inaccessible")     *)
(* exactly when the endpoint answers 404, raises a RequestException for     *)
(* every other failing status and for a transport failure, returns the      *)
(* (key, key_id) of the document when the request succeeded; the plain      *)
(* Exception is no RequestException.                                        *)
C6_ErrorKinds ==
    keyFetch.state # "none" =>
        LET r == keyFetch.resp
            o == keyFetch.outcome
        IN  /\ o.raised = "Exception" <=> (r # TransportFailure /\ r.status = 404)
            /\ (r = TransportFailure \/ OtherFailingStatus(r)) =>
                   (IsRequestException(o.raised) /\ o.raised # "Exception")
            /\ Succeeded(r) =>
                   (o.raised = "none"
                    /\ o.value = << keyFetch.data.key, keyFetch.data.key_id >>)
            /\ (keyFetch.state = "raised") <=> (o.raised # "none")

C6_Witness ==
    /\ keyFetch.state = "raised" /\ keyFetch.resp.status = 404
    /\ keyFetch.outcome.raised = "Exception"
    /\ ~IsRequestException(keyFetch.outcome.raised)

(* C7: verify_token returns False when GET /user answers 401 or the         *)
(* repository GET answers 404; returns True whenever both requests          *)
(* succeed, with or without the admin permission (without it a warning is   *)
(* printed); the repository GET is not issued when the identity check       *)
(* fails, and the identity check is always the first request.               *)
C7_VerifyToken ==
    verify.state = "done" =>
        /\ verify.user.status = 401 => ~verify.result
        /\ (verify.asked_repo /\ verify.repo.status = 404) => ~verify.result
        /\ (Succeeded(verify.user) /\ verify.asked_repo /\ Succeeded(verify.repo)) =>
               /\ verify.result
               /\ ~verify.admin <=> << "no_admin" >> \in warnings
        /\ ~Succeeded(verify.user) =>
               (~verify.asked_repo /\ requests = << "GET_USER" >> /\ ~verify.result)
        /\ verify.asked_repo <=> Len(RequestsOfKind("GET_REPO")) = 1
        /\ ~verify.result => (pc = "done" /\ exitCode = 1)

C7_Witness ==
    /\ verify.state = "done" /\ verify.result /\ ~verify.admin
    /\ Succeeded(verify.user) /\ Succeeded(verify.repo)
    /\ << "no_admin" >> \in warnings

(* C8, as claimed: exit code 1 when the token is missing, verification      *)
(* fails or the input path of a run that reads it is missing; otherwise     *)
(* exit code 0 on a --list run, a --dry-run run and a completed loop.       *)
C8_ExitCodesAsClaimed ==
    (pc = "done" /\ args.repo_known) =>
        IF ~args.token \/ ~verify.result \/ (~args.list /\ ~args.path_exists)
        THEN exitCode = 1
        ELSE (args.list \/ LoopCompleted) => exitCode = 0

\* the exit code of a finished run, from its inputs and what happened
ExpectedExit ==
    IF ~args.token \/ ~args.repo_known \/ ~verify.result THEN 1
    ELSE IF args.list THEN (IF listing.outcome.raised # "none" THEN 1 ELSE 0)
    ELSE IF ~args.path_exists THEN 1
    ELSE IF tool = "cert" /\ variables = << >> THEN 1
    ELSE 0

(* C8, amended: exit code 0 on a run that completes the loop, on a --list   *)
(* run whose listing succeeds and on a --dry-run run that reaches the       *)
(* preview; exit code 1 when the token is missing, the repository is not    *)
(* determined, verification fails, the listing of a --list run fails, the   *)
(* input path of a run without --list is missing, or the certificate tool   *)
(* read no certificate.                                                     *)
C8_ExitCodes ==
    /\ pc = "done" <=> exitCode # NoExit
    /\ pc = "done" => exitCode = ExpectedExit
    /\ LoopCompleted => exitCode = 0

C8_Witness ==
    /\ pc = "done" /\ args.list /\ listing.state = "done"
    /\ listing.outcome.raised # "none" /\ exitCode = 1

----------------------------------------------------------------------------
(* Properties of parse_env_file *)

ExportIndexes(lines, n) ==
    { i \in DOMAIN lines : lines[i].kind = "export" /\ lines[i].name = n }

AssignedNames(lines) ==
    { lines[i].name : i \in { j \in DOMAIN lines : lines[j].kind = "export" } }

Max(S) == CHOOSE x \in S : \A y \in S : y <= x

\* the text of the last assignment to n
LastRhs(lines, n) == lines[Max(ExportIndexes(lines, n))].rhs

(* C9: when B is assigned the reference $A and A is assigned in the same    *)
(* file, the map gives B the value it gives A.  (The code resolves one      *)
(* level only: it gives B the unresolved text of A.)                        *)
C9_ReferenceEqualsTarget ==
    pc = "parsed" =>
        \A a, b \in AssignedNames(envFile) :
            LastRhs(envFile, b) = << "$" >> \o a =>
                DictGet(variables, b) = DictGet(variables, a)

(* C10: a reference $NAME to a name neither assigned in the file nor set in *)
(* the environment is kept as the literal text $NAME, with a warning;       *)
(* every assigned name still gets its entry and the parse returns.          *)
C10_UnresolvedKeptLiteral ==
    pc = "parsed" =>
        /\ exitCode = NoExit
        /\ DictKeySet(variables) = AssignedNames(envFile)
        /\ \A b \in AssignedNames(envFile) :
            LET r == LastRhs(envFile, b)
            IN  /\ (StartsWith(r, "$") /\ Tail(r) \notin AssignedNames(envFile)
                      /\ ~DictHas(environ, Tail(r))) =>
                       (DictGet(variables, b) = r /\ << "unresolved", b >> \in warnings)
                /\ r \in { << "x" >>, << >> } => DictGet(variables, b) = r

C10_Witness ==
    /\ pc = "parsed" /\ environ = << >> /\ Len(variables) >= 2
    /\ \E b \in AssignedNames(envFile) :
        /\ LastRhs(envFile, b) = RefUndefined
        /\ DictGet(variables, b) = RefUndefined
        /\ << "unresolved", b >> \in warnings
    /\ \E c \in AssignedNames(envFile) : DictGet(variables, c) = << "x" >>

----------------------------------------------------------------------------
(* Properties of list_secrets, --dry-run and the request trace *)

RequestKinds == { requests[i] : i \in DOMAIN requests }

(* C11: list_secrets returns exactly the names of the secrets of the        *)
(* response, in the response's order, each a bare name with nothing         *)
(* attached, and the secrets-list GET is the only request it issues (the    *)
(* trace of a --list run is the two verification GETs and that one GET).    *)
C11_ListInRemoteOrder ==
    listing.state = "done" =>
        /\ requests = << "GET_USER", "GET_REPO", "GET_LIST" >>
        /\ Succeeded(listing.resp) =>
            /\ listing.outcome.raised = "none"
            /\ Len(listing.outcome.value) = Len(listing.secrets)
            /\ \A i \in DOMAIN listing.secrets :
                   listing.outcome.value[i] = listing.secrets[i].name

\* the remote lists B before A, and B before A is what comes back
C11_Witness ==
    /\ listing.state = "done" /\ Succeeded(listing.resp)
    /\ Len(listing.secrets) = 2
    /\ listing.secrets[1].name = << "B" >> /\ listing.secrets[2].name = << "A" >>
    /\ listing.outcome.value = << << "B" >>, << "A" >> >>

(* C12, as claimed: a run with --dry-run issues no request other than the   *)
(* two access-verification GETs.                                            *)
C12_OnlyVerificationGets ==
    args.dry_run => RequestKinds \subseteq { "GET_USER", "GET_REPO" }

(* C12, amended: a run with --dry-run issues no public-key GET and no PUT   *)
(* and calls set_secret for no secret; its requests are the two             *)
(* access-verification GETs, and the secrets-list GET when --list is given  *)
(* too.                                                                     *)
C12_DryRunNoUpload ==
    args.dry_run =>
        /\ RequestKinds \subseteq { "GET_USER", "GET_REPO", "GET_LIST" }
        /\ "GET_LIST" \in RequestKinds => args.list
        /\ keyFetch = NoKeyFetch /\ lastPut = NoPut /\ calls = << >>
        /\ pc \notin { "loop", "put" }

\* a dry run that read its secrets and returned
C12_Witness ==
    /\ args.dry_run /\ ~args.list /\ pc = "done" /\ exitCode = 0
    /\ variables # << >> /\ ~AllNonEmpty(variables) /\ Len(variables) >= 2
    /\ requests = << "GET_USER", "GET_REPO" >>

(* C13: every set_secret call issues exactly one public-key GET and at most *)
(* one PUT, the PUT right after that GET returned; when the fetch fails in  *)
(* any way the call sends no PUT and returns False; no call raises; the     *)
(* trace after the verification is a sequence of GET-key [PUT] groups.      *)
C13_OneFetchThenAtMostOnePut ==
    /\ Len(RequestsOfKind("GET_KEY")) = Len(calls) + (IF pc = "put" THEN 1 ELSE 0)
    /\ Len(RequestsOfKind("PUT")) = Cardinality({ i \in DOMAIN calls : calls[i].sent })
    /\ \A i \in DOMAIN requests :
        /\ requests[i] = "PUT" => (i > 1 /\ requests[i - 1] = "GET_KEY")
        /\ requests[i] = "GET_KEY" => (i > 2 /\ requests[i - 1] \in { "GET_REPO", "GET_KEY", "PUT" })
    /\ pc = "put" =>
           (requests[Len(requests)] = "GET_KEY" /\ keyFetch.state = "returned"
            /\ keyFetch.call = Len(calls) + 1)
    /\ \A i \in DOMAIN calls :
        /\ calls[i].outcome.raised = "none"
        /\ ~calls[i].sent => ~calls[i].outcome.value
    /\ (keyFetch.state # "none" /\ keyFetch.call <= Len(calls)) =>
           (calls[keyFetch.call].sent <=> Succeeded(keyFetch.resp))
    /\ (keyFetch.state = "raised") =>
           (keyFetch.call = Len(calls) /\ ~Succeeded(keyFetch.resp) /\ pc # "put"
            /\ (lastPut.state = "sent" => lastPut.call < keyFetch.call))

\* a fetch that failed between two uploads: GET PUT, GET, GET PUT
C13_Witness ==
    /\ Len(calls) = 3
    /\ calls[1].sent /\ ~calls[2].sent /\ calls[3].sent
    /\ ~calls[2].outcome.value /\ calls[2].outcome.raised = "none"
    /\ requests = << "GET_USER", "GET_REPO", "GET_KEY", "PUT", "GET_KEY", "GET_KEY", "PUT" >>
    /\ pc = "done" /\ exitCode = 0

====
